---- MODULE Spec2Model ----
(***************************************************************************)
(* The streaming ZigZag pivot detector of pandas_ti                        *)
(* (src/src/pandas_ti/indicators_dataframe/ZigZag.py): class ZigZagClass,  *)
(* its update() step and the pivots() / ZigZag() projections.              *)
(*                                                                         *)
(* Floats are modelled exactly: a finite price is a positive integer, the  *)
(* threshold pct is a fraction <<numerator, denominator>>, and NaN, +inf,  *)
(* -inf and Python's None are distinct integer codes outside the price     *)
(* range.  A quotient (the result of _pct_change) is a record that keeps   *)
(* numerator and denominator, or one of the IEEE specials.                 *)
(* Python positions are 0-based; positions in historic_dic are 1-based     *)
(* here, while the bar labels (idx) are 0, 1, 2, ... as in the loop of     *)
(* ZigZag() over a default index.                                          *)
(***************************************************************************)
EXTENDS Integers, Sequences, FiniteSets, TLC

\* ---------------------------------------------------------------- bounds
MaxBars == 4
MaxPrice == 3

\* Longest argument list handed to validate_inputs.
MaxArgs == 3

\* Longest series handed to SRTR, and the largest window (N or n).
MaxLen == 4
MaxWindow == 3

\* ------------------------------------------------------- value encodings
NaN == -1
NoneVal == -2
PosInf == 1000000
NegInf == -1000000

isna(x) == x = NaN

\* Thresholds the engine is built with (pct > 0), as <<numerator, denominator>>.
Pcts == {<<1, 2>>, <<1, 3>>}

\* The bars of the bounded feed: every valid bar (high >= low) with prices in
\* 1..MaxPrice, and one bar of each kind update() skips: NaN high, NaN low,
\* high < low.
Prices == 1..MaxPrice
InvalidBars == {<<NaN, 1>>, <<1, NaN>>, <<1, 2>>}
Bars == {b \in Prices \X Prices : b[1] >= b[2]} \cup InvalidBars

\* Bars of the worked scenarios of the specification (section 8), with an
\* inverted bar and a NaN bar, and their thresholds 0.05 and 0.10.
ScenarioBars == {<<100, 99>>, <<110, 109>>, <<96, 95>>, <<100, 100>>, <<99, 100>>,
                 <<NaN, 95>>, <<110, 95>>}
ScenarioPcts == {<<5, 100>>, <<10, 100>>}

\* Thresholds handed to the constructor, among them the ones it rejects.
CtorPcts == {<<-1, 2>>, <<0, 1>>, <<1, 2>>}

VARIABLES zz, ret, confirmations, call, raised

vars == <<zz, ret, confirmations, call, raised>>

\* ------------------------------------------------------------ arithmetic
\* _pct_change with the difference taken the wrong way round.
_pct_change_swapped(reference, new) ==
    IF isna(reference) \/ isna(new) THEN [k |-> "nan", n |-> 0, d |-> 1]
    ELSE IF reference \in {PosInf, NegInf} THEN [k |-> "nan", n |-> 0, d |-> 1]
    ELSE IF new = PosInf THEN [k |-> IF reference > 0 THEN "ninf" ELSE "pinf", n |-> 0, d |-> 1]
    ELSE IF new = NegInf THEN [k |-> IF reference > 0 THEN "pinf" ELSE "ninf", n |-> 0, d |-> 1]
    ELSE [k |-> "fin", n |-> reference - new, d |-> reference]

\* (new - reference) / reference in IEEE double arithmetic, kept as a fraction.
_pct_change(reference, new) ==
    IF isna(reference) \/ isna(new) THEN [k |-> "nan", n |-> 0, d |-> 1]
    ELSE IF reference \in {PosInf, NegInf} THEN [k |-> "nan", n |-> 0, d |-> 1]
    ELSE IF new = PosInf THEN [k |-> IF reference > 0 THEN "pinf" ELSE "ninf", n |-> 0, d |-> 1]
    ELSE IF new = NegInf THEN [k |-> IF reference > 0 THEN "ninf" ELSE "pinf", n |-> 0, d |-> 1]
    ELSE [k |-> "fin", n |-> new - reference, d |-> reference]

\* Unary minus on a quotient.
Neg(c) ==
    IF c.k = "fin" THEN [c EXCEPT !.n = 0 - c.n]
    ELSE IF c.k = "pinf" THEN [c EXCEPT !.k = "ninf"]
    ELSE IF c.k = "ninf" THEN [c EXCEPT !.k = "pinf"]
    ELSE c

\* GE with the threshold dropped: any positive move passes.
GE_positive_move(c, p) ==
    IF c.k = "fin" THEN (c.d > 0 /\ c.n > 0) \/ (c.d < 0 /\ c.n < 0)
    ELSE c.k = "pinf"

\* change >= pct, for pct = p[1] / p[2] with p[2] > 0.
GE(c, p) ==
    IF c.k = "fin"
    THEN IF c.d > 0 THEN c.n * p[2] >= p[1] * c.d
         ELSE c.n * p[2] <= p[1] * c.d
    ELSE c.k = "pinf"

\* ------------------------------------------------------------ the engine
\* The place of the instance while no ZigZagClass object exists.
NoEngine == [exists |-> FALSE]

\* The constructor's guard with < for <=: a zero threshold passes.
init_raises_negative_only(pct) == pct[1] < 0

\* The guard of __init__: True when it raises ValueError("pct must be > 0").
init_raises(pct) == pct[1] <= 0

\* The attributes __init__ sets whatever the debug flag.
BaseAttributes(pct, debug) ==
    [ pct |-> pct,
      debug |-> debug,
      last_confirmed_type |-> "None",
      last_confirmed_price |-> NoneVal,
      last_confirmed_idx |-> NoneVal,
      confirmed |-> FALSE,
      swing_high |-> NegInf,
      swing_high_idx |-> NoneVal,
      swing_low |-> PosInf,
      swing_low_idx |-> NoneVal,
      candidate_price |-> NoneVal,
      candidate_idx |-> NoneVal,
      historic_dic |-> << >>,
      _index_to_pos |-> << >> ]

\* The object __init__ leaves: debug_dic is an attribute only when debug is
\* true.
ZigZagClass(pct, debug) ==
    IF debug
    THEN BaseAttributes(pct, debug) @@ [debug_dic |-> << >>]
    ELSE BaseAttributes(pct, debug)

\* _debug_state recording "a pivot was confirmed at some time" for "this call
\* confirmed a pivot".
_debug_state_confirmed_sticky(self, high, low, idx) ==
    [self EXCEPT !.debug_dic =
        Append(@, [index |-> idx, High |-> high, Low |-> low,
                   swing_high |-> self.swing_high,
                   swing_high_idx |-> self.swing_high_idx,
                   swing_low |-> self.swing_low,
                   swing_low_idx |-> self.swing_low_idx,
                   candidate_price |-> self.candidate_price,
                   candidate_idx |-> self.candidate_idx,
                   confirmed |-> self.last_confirmed_type # "None",
                   last_confirmed_type |-> self.last_confirmed_type,
                   last_confirmed_price |->
                       IF self.confirmed THEN self.last_confirmed_price ELSE NaN,
                   last_confirmed_idx |->
                       IF self.confirmed THEN self.last_confirmed_idx ELSE NaN])]

\* One row of debug_dic: the state of the engine at the end of a call.
_debug_state(self, high, low, idx) ==
    [self EXCEPT !.debug_dic =
        Append(@, [index |-> idx, High |-> high, Low |-> low,
                   swing_high |-> self.swing_high,
                   swing_high_idx |-> self.swing_high_idx,
                   swing_low |-> self.swing_low,
                   swing_low_idx |-> self.swing_low_idx,
                   candidate_price |-> self.candidate_price,
                   candidate_idx |-> self.candidate_idx,
                   confirmed |-> self.confirmed,
                   last_confirmed_type |-> self.last_confirmed_type,
                   last_confirmed_price |->
                       IF self.confirmed THEN self.last_confirmed_price ELSE NaN,
                   last_confirmed_idx |->
                       IF self.confirmed THEN self.last_confirmed_idx ELSE NaN])]

\* debug_df(): the rows of debug_dic, or the AttributeError of reading an
\* attribute the object does not have.
debug_df(self) ==
    IF "debug_dic" \in DOMAIN self
    THEN [raised |-> "None", rows |-> self.debug_dic]
    ELSE [raised |-> "AttributeError", rows |-> << >>]

\* _update_df building the ZigZag and type columns anew, all NaN.
_update_df_clears_annotations(self, high, low, idx) ==
    LET rows == Append([k \in DOMAIN self.historic_dic |->
                           [self.historic_dic[k] EXCEPT !.ZigZag = NaN, !.type = "NaN"]],
                       [index |-> idx, High |-> high, Low |-> low,
                        ZigZag |-> NaN, type |-> "NaN"])
    IN [self EXCEPT
          !.historic_dic = rows,
          !._index_to_pos = [i \in (DOMAIN self._index_to_pos) \cup {idx} |->
                                IF i = idx THEN Len(rows) ELSE self._index_to_pos[i]]]

_update_df(self, high, low, idx) ==
    LET rows == Append(self.historic_dic,
                       [index |-> idx, High |-> high, Low |-> low,
                        ZigZag |-> NaN, type |-> "NaN"])
    IN [self EXCEPT
          !.historic_dic = rows,
          !._index_to_pos = [i \in (DOMAIN self._index_to_pos) \cup {idx} |->
                                IF i = idx THEN Len(rows) ELSE self._index_to_pos[i]]]

\* _reset_swings putting the sentinel back without moving the swing's index.
_reset_swings_keeps_idx(self, confirmed, high, low, idx) ==
    IF confirmed = "High"
    THEN [self EXCEPT !.swing_high = NegInf]
    ELSE IF confirmed = "Low"
    THEN [self EXCEPT !.swing_low = PosInf]
    ELSE self

\* _reset_swings(): the swing on the side named goes back to its sentinel, at
\* the index of the bar being processed.
_reset_swings(self, confirmed, high, low, idx) ==
    IF confirmed = "High"
    THEN [self EXCEPT !.swing_high = NegInf, !.swing_high_idx = idx]
    ELSE IF confirmed = "Low"
    THEN [self EXCEPT !.swing_low = PosInf, !.swing_low_idx = idx]
    ELSE self

\* _update_swings whose High branch resets the side it has just updated
\* (confirmed='Low' handed to _reset_swings for 'High').
_update_swings_resets_same_side(self, confirmed, high, low, idx) ==
    IF confirmed = "None"
    THEN LET s1 == IF high > self.swing_high
                   THEN [self EXCEPT !.swing_high = high, !.swing_high_idx = idx]
                   ELSE self
         IN IF low < s1.swing_low
            THEN [s1 EXCEPT !.swing_low = low, !.swing_low_idx = idx]
            ELSE s1
    ELSE IF confirmed = "High"
    THEN IF low < self.swing_low
         THEN _reset_swings([self EXCEPT !.swing_low = low, !.swing_low_idx = idx],
                            "Low", high, low, idx)
         ELSE IF high > self.swing_high
         THEN [self EXCEPT !.swing_high = high, !.swing_high_idx = idx]
         ELSE self
    ELSE IF confirmed = "Low"
    THEN IF self.swing_high < high
         THEN _reset_swings([self EXCEPT !.swing_high = high, !.swing_high_idx = idx],
                            "Low", high, low, idx)
         ELSE IF low < self.swing_low
         THEN [self EXCEPT !.swing_low = low, !.swing_low_idx = idx]
         ELSE self
    ELSE self

\* _update_swings with two independent tests in the post-bootstrap branches
\* (if for elif).
_update_swings_no_elif(self, confirmed, high, low, idx) ==
    IF confirmed = "None"
    THEN LET s1 == IF high > self.swing_high
                   THEN [self EXCEPT !.swing_high = high, !.swing_high_idx = idx]
                   ELSE self
         IN IF low < s1.swing_low
            THEN [s1 EXCEPT !.swing_low = low, !.swing_low_idx = idx]
            ELSE s1
    ELSE IF confirmed = "High"
    THEN LET s1 == IF low < self.swing_low
                   THEN _reset_swings([self EXCEPT !.swing_low = low, !.swing_low_idx = idx],
                                      "High", high, low, idx)
                   ELSE self
         IN IF high > s1.swing_high
            THEN [s1 EXCEPT !.swing_high = high, !.swing_high_idx = idx]
            ELSE s1
    ELSE IF confirmed = "Low"
    THEN LET s1 == IF self.swing_high < high
                   THEN _reset_swings([self EXCEPT !.swing_high = high, !.swing_high_idx = idx],
                                      "Low", high, low, idx)
                   ELSE self
         IN IF low < s1.swing_low
            THEN [s1 EXCEPT !.swing_low = low, !.swing_low_idx = idx]
            ELSE s1
    ELSE self

_update_swings(self, confirmed, high, low, idx) ==
    IF confirmed = "None"
    THEN LET s1 == IF high > self.swing_high
                   THEN [self EXCEPT !.swing_high = high, !.swing_high_idx = idx]
                   ELSE self
         IN IF low < s1.swing_low
            THEN [s1 EXCEPT !.swing_low = low, !.swing_low_idx = idx]
            ELSE s1
    ELSE IF confirmed = "High"
    THEN IF low < self.swing_low
         THEN _reset_swings([self EXCEPT !.swing_low = low, !.swing_low_idx = idx],
                            "High", high, low, idx)
         ELSE IF high > self.swing_high
         THEN [self EXCEPT !.swing_high = high, !.swing_high_idx = idx]
         ELSE self
    ELSE IF confirmed = "Low"
    THEN IF self.swing_high < high
         THEN _reset_swings([self EXCEPT !.swing_high = high, !.swing_high_idx = idx],
                            "Low", high, low, idx)
         ELSE IF low < self.swing_low
         THEN [self EXCEPT !.swing_low = low, !.swing_low_idx = idx]
         ELSE self
    ELSE self

\* _confirm_pivot annotating the row of the bar being processed instead of the
\* row of the pivot.
_confirm_pivot_at_current_bar(self, price, idx, extreme_type) ==
    LET pos == Len(self.historic_dic)
    IN [self EXCEPT
          !.historic_dic[pos].ZigZag = price,
          !.historic_dic[pos].type = extreme_type,
          !.last_confirmed_type = extreme_type,
          !.last_confirmed_price = price,
          !.last_confirmed_idx = idx,
          !.confirmed = TRUE,
          !.candidate_price = NoneVal,
          !.candidate_idx = NoneVal]

\* _confirm_pivot recording the number of rows as the index of the pivot.
_confirm_pivot_records_length(self, price, idx, extreme_type) ==
    LET pos == self._index_to_pos[idx]
    IN [self EXCEPT
          !.historic_dic[pos].ZigZag = price,
          !.historic_dic[pos].type = extreme_type,
          !.last_confirmed_type = extreme_type,
          !.last_confirmed_price = price,
          !.last_confirmed_idx = Len(self.historic_dic),
          !.confirmed = TRUE,
          !.candidate_price = NoneVal,
          !.candidate_idx = NoneVal]

\* _confirm_pivot appending the pivot as a row of its own instead of
\* annotating the row of its bar.
_confirm_pivot_appends(self, price, idx, extreme_type) ==
    LET pos == self._index_to_pos[idx]
    IN [self EXCEPT
          !.historic_dic = Append(@, [index |-> idx,
                                      High |-> self.historic_dic[pos].High,
                                      Low |-> self.historic_dic[pos].Low,
                                      ZigZag |-> price, type |-> extreme_type]),
          !.last_confirmed_type = extreme_type,
          !.last_confirmed_price = price,
          !.last_confirmed_idx = idx,
          !.confirmed = TRUE,
          !.candidate_price = NoneVal,
          !.candidate_idx = NoneVal]

_confirm_pivot(self, price, idx, extreme_type) ==
    LET pos == self._index_to_pos[idx]
    IN [self EXCEPT
          !.historic_dic[pos].ZigZag = price,
          !.historic_dic[pos].type = extreme_type,
          !.last_confirmed_type = extreme_type,
          !.last_confirmed_price = price,
          !.last_confirmed_idx = idx,
          !.confirmed = TRUE,
          !.candidate_price = NoneVal,
          !.candidate_idx = NoneVal]

\* is_invalid without the test of the order of high and low.
is_invalid_nan_only(high, low) == isna(high) \/ isna(low)

\* The validity test of update(): True when the bar is skipped.
is_invalid(high, low) == isna(high) \/ isna(low) \/ high < low

\* bootstrap_step taking the low-first branch also when both swings carry the
\* same index (<= for <).
bootstrap_step_tie_low_first(self, high, low, idx) ==
    IF self.swing_low_idx <= self.swing_high_idx
    THEN LET change == _pct_change(self.swing_low, self.swing_high)
             s4 == IF GE(change, self.pct)
                   THEN _reset_swings(
                           _confirm_pivot(self, self.swing_low, self.swing_low_idx, "Low"),
                           "Low", high, low, idx)
                   ELSE self
         IN [s4 EXCEPT !.candidate_price = s4.swing_low,
                       !.candidate_idx = s4.swing_low_idx]
    ELSE IF self.swing_high_idx < self.swing_low_idx
    THEN LET change == _pct_change(self.swing_high, self.swing_low)
             s4 == IF GE(change, self.pct)
                   THEN _reset_swings(
                           _confirm_pivot(self, self.swing_high, self.swing_high_idx, "High"),
                           "High", high, low, idx)
                   ELSE self
         IN [s4 EXCEPT !.candidate_price = s4.swing_high,
                       !.candidate_idx = s4.swing_high_idx]
    ELSE self

\* bootstrap_step confirming without resetting the confirmed swing.
bootstrap_step_no_reset(self, high, low, idx) ==
    IF self.swing_low_idx < self.swing_high_idx
    THEN LET change == _pct_change(self.swing_low, self.swing_high)
             s4 == IF GE(change, self.pct)
                   THEN _confirm_pivot(self, self.swing_low, self.swing_low_idx, "Low")
                   ELSE self
         IN [s4 EXCEPT !.candidate_price = s4.swing_low,
                       !.candidate_idx = s4.swing_low_idx]
    ELSE IF self.swing_high_idx < self.swing_low_idx
    THEN LET change == _pct_change(self.swing_high, self.swing_low)
             s4 == IF GE(change, self.pct)
                   THEN _confirm_pivot(self, self.swing_high, self.swing_high_idx, "High")
                   ELSE self
         IN [s4 EXCEPT !.candidate_price = s4.swing_high,
                       !.candidate_idx = s4.swing_high_idx]
    ELSE self

\* update(), step 3, no pivot confirmed yet.
bootstrap_step(self, high, low, idx) ==
    IF self.swing_low_idx < self.swing_high_idx
    THEN LET change == _pct_change(self.swing_low, self.swing_high)
             s4 == IF GE(change, self.pct)
                   THEN _reset_swings(
                           _confirm_pivot(self, self.swing_low, self.swing_low_idx, "Low"),
                           "Low", high, low, idx)
                   ELSE self
         IN [s4 EXCEPT !.candidate_price = s4.swing_low,
                       !.candidate_idx = s4.swing_low_idx]
    ELSE IF self.swing_high_idx < self.swing_low_idx
    THEN LET change == _pct_change(self.swing_high, self.swing_low)
             s4 == IF GE(change, self.pct)
                   THEN _reset_swings(
                           _confirm_pivot(self, self.swing_high, self.swing_high_idx, "High"),
                           "High", high, low, idx)
                   ELSE self
         IN [s4 EXCEPT !.candidate_price = s4.swing_high,
                       !.candidate_idx = s4.swing_high_idx]
    ELSE self

\* after_low_step setting the candidate only when nothing was confirmed.
after_low_step_candidate_in_else(self, high, low, idx) ==
    LET change == Neg(_pct_change(self.swing_high, self.swing_low))
    IN IF GE(change, self.pct)
       THEN _reset_swings(
               _confirm_pivot(self, self.swing_high, self.swing_high_idx, "High"),
               "High", high, low, idx)
       ELSE [self EXCEPT !.candidate_price = self.swing_high,
                         !.candidate_idx = self.swing_high_idx]

\* after_low_step measuring the drop against swing_low instead of swing_high.
after_low_step_low_reference(self, high, low, idx) ==
    LET change == Neg(_pct_change_swapped(self.swing_low, self.swing_high))
        s4 == IF GE(change, self.pct)
              THEN _reset_swings(
                      _confirm_pivot(self, self.swing_high, self.swing_high_idx, "High"),
                      "High", high, low, idx)
              ELSE self
    IN [s4 EXCEPT !.candidate_price = s4.swing_high,
                  !.candidate_idx = s4.swing_high_idx]

\* update(), step 3, last confirmed pivot is a Low.
after_low_step(self, high, low, idx) ==
    LET change == Neg(_pct_change(self.swing_high, self.swing_low))
        s4 == IF GE(change, self.pct)
              THEN _reset_swings(
                      _confirm_pivot(self, self.swing_high, self.swing_high_idx, "High"),
                      "High", high, low, idx)
              ELSE self
    IN [s4 EXCEPT !.candidate_price = s4.swing_high,
                  !.candidate_idx = s4.swing_high_idx]

\* after_high_step running the branch written for a last confirmed Low.
after_high_step_as_low(self, high, low, idx) == after_low_step(self, high, low, idx)

\* update(), step 3, last confirmed pivot is a High.
after_high_step(self, high, low, idx) ==
    LET change == _pct_change(self.swing_low, self.swing_high)
        s4 == IF GE(change, self.pct)
              THEN _reset_swings(
                      _confirm_pivot(self, self.swing_low, self.swing_low_idx, "Low"),
                      "Low", high, low, idx)
              ELSE self
    IN [s4 EXCEPT !.candidate_price = s4.swing_low,
                  !.candidate_idx = s4.swing_low_idx]

\* update(): the state of the engine when the call returns.
update(self, high, low, idx) ==
    LET s1 == _update_df(self, high, low, idx)
    IN IF is_invalid(high, low)
       THEN s1
       ELSE
       LET s2 == _update_swings(s1, s1.last_confirmed_type, high, low, idx)
           s3 == [s2 EXCEPT !.confirmed = FALSE]
           s5 == IF s3.last_confirmed_type = "None"
                 THEN bootstrap_step(s3, high, low, idx)
                 ELSE IF s3.last_confirmed_type = "High"
                 THEN after_high_step(s3, high, low, idx)
                 ELSE IF s3.last_confirmed_type = "Low"
                 THEN after_low_step(s3, high, low, idx)
                 ELSE s3
       IN IF s5.debug THEN _debug_state(s5, high, low, idx) ELSE s5

\* What a call hands back to its caller, as an optional pivot: None is
\* some = FALSE.
NoReturn == [some |-> FALSE, price |-> NoneVal, index |-> NoneVal, extreme_type |-> "None"]

\* update() ending with a return of the pivot it has just confirmed.
update_return_pivot(self, high, low, idx) ==
    LET new == update(self, high, low, idx)
    IN IF ~is_invalid(high, low) /\ new.confirmed
       THEN [some |-> TRUE, price |-> new.last_confirmed_price,
             index |-> new.last_confirmed_idx,
             extreme_type |-> new.last_confirmed_type]
       ELSE NoReturn

\* The value of the call update(high, low, idx): the method has no return
\* statement on any path, so every call evaluates to None.
update_return(self, high, low, idx) == NoReturn

\* The Series built by pivots(): one entry per history label holding the
\* ZigZag column, then the entry labelled candidate_idx set to candidate_price
\* (a label that is absent is added; None is stored in the float Series as NaN).
pivots(self) ==
    LET labels == {self.historic_dic[k].index : k \in DOMAIN self.historic_dic}
    IN [i \in labels \cup {self.candidate_idx} |->
          IF i = self.candidate_idx
          THEN IF self.candidate_price = NoneVal THEN NaN ELSE self.candidate_price
          ELSE self.historic_dic[self._index_to_pos[i]].ZigZag]

\* The loop of ZigZag(): the engine after update(highs[i], lows[i], index[i])
\* for i = 0 .. n-1, index being 0, 1, 2, ...
RECURSIVE FeedAll(_, _, _, _)
FeedAll(self, High, Low, n) ==
    IF n = 0 THEN self
    ELSE update(FeedAll(self, High, Low, n - 1), High[n], Low[n], n - 1)

ZigZag(High, Low, pct) ==
    pivots(FeedAll(ZigZagClass(pct, FALSE), High, Low, Len(High)))

\* ------------------------------------------------------------ the helpers
\* The index labels a Series or DataFrame can carry.
SeriesIndexes == {1, 2}

\* Values handed to validate_inputs.  has_index tells whether reading the
\* attribute .index succeeds: a Series and a DataFrame carry an Index there,
\* a list has its method index (index = 0 marks "not an Index"), an int has
\* no such attribute.
ArgValues ==
    [kind : {"Series", "DataFrame"}, has_index : {TRUE}, index : SeriesIndexes]
    \cup {[kind |-> "list", has_index |-> TRUE, index |-> 0],
          [kind |-> "int", has_index |-> FALSE, index |-> 0]}

ArgLists == UNION {[1..k -> ArgValues] : k \in 0..MaxArgs}

\* The for loop of validate_inputs from argument i on: the first argument that
\* fails a test ends the call.
RECURSIVE validate_loop(_, _, _)
validate_loop(series, i, index) ==
    IF i > Len(series) THEN "None"
    ELSE IF series[i].kind # "Series" THEN "TypeError"
    ELSE IF series[i].index # index THEN "ValueError"
    ELSE validate_loop(series, i + 1, index)

\* validate_inputs(*series): the exception it raises, "None" for a return.
validate_inputs(series) ==
    IF Len(series) = 0 THEN "IndexError"
    ELSE IF ~series[1].has_index THEN "AttributeError"
    ELSE validate_loop(series, 1, series[1].index)

Methods == {"iid", "cluster", "autocorr"}

\* SRTR(): its three tests, on a series of the given length (RTR keeps the
\* length of its inputs), and the routine it hands the series to.
SRTR(length, N, n, method) ==
    IF length <= N
    THEN [raised |-> "ValueError", message |-> "Length of series must be >= N.",
          routine |-> "none"]
    ELSE IF N <= n
    THEN [raised |-> "ValueError", message |-> "N must be greater than n.",
          routine |-> "none"]
    ELSE IF method \notin {"iid", "cluster"}
    THEN [raised |-> "ValueError", message |-> "Method must be either 'iid' or 'cluster'.",
          routine |-> "none"]
    ELSE IF n = 1 \/ method = "iid"
    THEN [raised |-> "None", message |-> "", routine |-> "_SRTR_iid"]
    ELSE [raised |-> "None", message |-> "", routine |-> "_SRTR_cluster"]

\* ------------------------------------------------------- the state machine
\* zz is the ZigZagClass instance, ret the value returned by the last call of
\* update(), confirmations the pivots in the order _confirm_pivot recorded
\* them, each with the label of the bar whose update() confirmed it, call the
\* last call made with its arguments, raised the exception that call ended
\* with ("None" when it returned).
CallUpdate(high, low) ==
    /\ zz # NoEngine
    /\ Len(zz.historic_dic) < MaxBars
    /\ call' = [op |-> "update", high |-> high, low |-> low]
    /\ raised' = "None"
    /\ LET idx == Len(zz.historic_dic)
           new == update(zz, high, low, idx)
       IN /\ zz' = new
          /\ ret' = update_return(zz, high, low, idx)
          /\ confirmations' =
               IF ~is_invalid(high, low) /\ new.confirmed
               THEN Append(confirmations,
                           [price |-> new.last_confirmed_price,
                            idx |-> new.last_confirmed_idx,
                            type |-> new.last_confirmed_type,
                            at |-> idx])
               ELSE confirmations

\* zz = ZigZagClass(pct, debug): the constructor raises for pct <= 0 and no
\* object comes to exist.
Construct(pct, debug) ==
    /\ zz = NoEngine
    /\ raised = "None"
    /\ call' = [op |-> "__init__", pct |-> pct, debug |-> debug]
    /\ IF init_raises(pct)
       THEN zz' = NoEngine /\ raised' = "ValueError"
       ELSE zz' = ZigZagClass(pct, debug) /\ raised' = "None"
    /\ UNCHANGED <<ret, confirmations>>

Init ==
    /\ \E p \in Pcts :
          /\ zz = ZigZagClass(p, FALSE)
          /\ call = [op |-> "__init__", pct |-> p, debug |-> FALSE]
    /\ raised = "None"
    /\ ret = NoReturn
    /\ confirmations = << >>

Next == \E b \in Bars : CallUpdate(b[1], b[2])

Spec == Init /\ [][Next]_vars

InitScenario ==
    /\ \E p \in ScenarioPcts :
          /\ zz = ZigZagClass(p, FALSE)
          /\ call = [op |-> "__init__", pct |-> p, debug |-> FALSE]
    /\ raised = "None"
    /\ ret = NoReturn
    /\ confirmations = << >>

NextScenario == \E b \in ScenarioBars : CallUpdate(b[1], b[2])

SpecScenario == InitScenario /\ [][NextScenario]_vars

\* The life of one instance from its construction on, with either debug flag.
InitEngine ==
    /\ zz = NoEngine
    /\ call = [op |-> "none"]
    /\ raised = "None"
    /\ ret = NoReturn
    /\ confirmations = << >>

NextEngine ==
    \/ \E p \in CtorPcts, d \in BOOLEAN : Construct(p, d)
    \/ \E b \in Bars : CallUpdate(b[1], b[2])

SpecEngine == InitEngine /\ [][NextEngine]_vars

\* One call of validate_inputs on the arguments drawn.
CallValidateInputs ==
    /\ call.op = "pending"
    /\ call.fn = "validate_inputs"
    /\ call' = [call EXCEPT !.op = "validate_inputs"]
    /\ raised' = validate_inputs(call.series)
    /\ UNCHANGED <<zz, ret, confirmations>>

\* One call of SRTR on the arguments drawn.
CallSRTR ==
    /\ call.op = "pending"
    /\ call.fn = "SRTR"
    /\ LET r == SRTR(call.length, call.N, call.n, call.method)
       IN /\ call' = [call EXCEPT !.op = "SRTR"]
          /\ raised' = r.raised
          /\ ret' = [some |-> r.raised = "None", routine |-> r.routine,
                     message |-> r.message]
    /\ UNCHANGED <<zz, confirmations>>

\* One call of a helper, on any arguments within the bounds.
InitHelpers ==
    /\ zz = NoEngine
    /\ raised = "None"
    /\ ret = NoReturn
    /\ confirmations = << >>
    /\ \/ \E args \in ArgLists :
             call = [op |-> "pending", fn |-> "validate_inputs", series |-> args]
       \/ \E length \in 0..MaxLen, N \in 1..MaxWindow, n \in 1..MaxWindow,
             method \in Methods :
             call = [op |-> "pending", fn |-> "SRTR", length |-> length,
                     N |-> N, n |-> n, method |-> method]

NextHelpers == CallValidateInputs \/ CallSRTR

SpecHelpers == InitHelpers /\ [][NextHelpers]_vars

\* ------------------------------------------------------------ properties
Rows == zz.historic_dic

LastRow == Rows[Len(Rows)]

NumConfirmed == Len(confirmations)

\* The last call of update() confirmed a pivot.
ConfirmedThisCall ==
    /\ Len(Rows) > 0
    /\ NumConfirmed > 0
    /\ confirmations[NumConfirmed].at = LastRow.index

Abs(x) == IF x < 0 THEN 0 - x ELSE x

\* C1: the types of the confirmed pivots, in confirmation order, strictly
\* alternate: each is High or Low and no two consecutive ones are equal.
C1_TypesAlternate ==
    /\ \A k \in 1..NumConfirmed : confirmations[k].type \in {"High", "Low"}
    /\ \A k \in 1..(NumConfirmed - 1) :
          confirmations[k].type # confirmations[k + 1].type

C1_Witness == NumConfirmed >= 3

\* C2: for consecutively confirmed pivots P_k, P_k+1 the move
\* |P_k+1.price - P_k.price| / P_k.price is at least pct.
C2_ThresholdBetweenPivots ==
    \A k \in 1..(NumConfirmed - 1) :
        Abs(confirmations[k + 1].price - confirmations[k].price) * zz.pct[2]
            >= zz.pct[1] * confirmations[k].price

\* A Low -> High pair and a High -> Low pair, one of them exactly at pct.
C2_Witness ==
    /\ \E k \in 1..(NumConfirmed - 1) :
          confirmations[k].type = "Low" /\ confirmations[k + 1].type = "High"
    /\ \E k \in 1..(NumConfirmed - 1) :
          /\ confirmations[k].type = "High" /\ confirmations[k + 1].type = "Low"
          /\ Abs(confirmations[k + 1].price - confirmations[k].price) * zz.pct[2]
                = zz.pct[1] * confirmations[k].price

\* A history row whose bar update() must skip (stated on the row itself).
InvalidRow(r) == r.High = NaN \/ r.Low = NaN \/ r.High < r.Low

\* change >= pct for the positive fraction num / den.
AtLeastPct(num, den) == num * zz.pct[2] >= zz.pct[1] * den

\* C3: in the bootstrap phase, when after the swing update the swing high is
\* at an earlier index than the swing low and the drop
\* (swing_high - swing_low) / swing_high is at least pct, the call confirms
\* the swing high as a High pivot.
C3_BootstrapConfirmsHighFirst ==
    [][ (Len(zz'.historic_dic) = Len(zz.historic_dic) + 1) =>
        LET row == zz'.historic_dic[Len(zz'.historic_dic)]
            s2 == _update_swings(_update_df(zz, row.High, row.Low, row.index),
                                 "None", row.High, row.Low, row.index)
        IN ( /\ zz.last_confirmed_type = "None"
             /\ ~InvalidRow(row)
             /\ s2.swing_high_idx < s2.swing_low_idx
             /\ AtLeastPct(s2.swing_high - s2.swing_low, s2.swing_high) )
           => ( /\ zz'.last_confirmed_type = "High"
                /\ zz'.last_confirmed_price = s2.swing_high
                /\ zz'.last_confirmed_idx = s2.swing_high_idx )
      ]_vars

\* C4: a call of update() with an invalid bar (NaN high or low, or high < low)
\* leaves the swings, the candidate and the last confirmed pivot unchanged,
\* confirms nothing, and appends one history row without annotation; the
\* index of such a bar is never the index of a confirmed pivot.
C4_InvalidBarAbsorbed ==
    /\ [] ( \A k \in DOMAIN Rows :
               InvalidRow(Rows[k]) =>
                  /\ Rows[k].ZigZag = NaN
                  /\ Rows[k].type = "NaN"
                  /\ zz.last_confirmed_idx # Rows[k].index
                  /\ \A c \in DOMAIN confirmations :
                        confirmations[c].idx # Rows[k].index )
    /\ [][ (Len(zz'.historic_dic) = Len(zz.historic_dic) + 1) =>
           LET row == zz'.historic_dic[Len(zz'.historic_dic)]
           IN InvalidRow(row) =>
                 /\ zz'.swing_high = zz.swing_high
                 /\ zz'.swing_high_idx = zz.swing_high_idx
                 /\ zz'.swing_low = zz.swing_low
                 /\ zz'.swing_low_idx = zz.swing_low_idx
                 /\ zz'.candidate_price = zz.candidate_price
                 /\ zz'.candidate_idx = zz.candidate_idx
                 /\ zz'.last_confirmed_type = zz.last_confirmed_type
                 /\ zz'.last_confirmed_price = zz.last_confirmed_price
                 /\ zz'.last_confirmed_idx = zz.last_confirmed_idx
                 /\ zz'.confirmed = zz.confirmed
                 /\ confirmations' = confirmations
                 /\ zz'.historic_dic =
                       Append(zz.historic_dic,
                              [index |-> row.index, High |-> row.High, Low |-> row.Low,
                               ZigZag |-> NaN, type |-> "NaN"])
         ]_vars

\* An invalid bar fed to an engine that has a confirmed pivot and a candidate.
C4_Witness ==
    /\ Len(Rows) >= 3
    /\ InvalidRow(LastRow)
    /\ NumConfirmed >= 1
    /\ zz.candidate_idx # NoneVal

HighColumn == [k \in 1..Len(Rows) |-> Rows[k].High]

LowColumn == [k \in 1..Len(Rows) |-> Rows[k].Low]

IsPivotIndex(i) == \E c \in DOMAIN confirmations : confirmations[c].idx = i

\* C6: in the series returned by ZigZag(High, Low, pct) every position whose
\* bar was not confirmed as a pivot holds NaN and every confirmed pivot
\* position holds the price of the pivot.
C6_SeriesHoldsOnlyPivots ==
    Len(Rows) > 0 =>
        LET series == ZigZag(HighColumn, LowColumn, zz.pct)
        IN \A k \in DOMAIN Rows :
              LET i == Rows[k].index
              IN /\ i \in DOMAIN series
                 /\ IF IsPivotIndex(i)
                    THEN \E c \in DOMAIN confirmations :
                            /\ confirmations[c].idx = i
                            /\ series[i] = confirmations[c].price
                    ELSE series[i] = NaN

\* C7: when a bootstrap call confirms the first pivot, the candidate after the
\* call is the other extreme: the running value and index of the swing side
\* that was not confirmed.
C7_CandidateIsOtherExtreme ==
    (ConfirmedThisCall /\ NumConfirmed = 1) =>
        IF confirmations[1].type = "Low"
        THEN /\ zz.candidate_price = zz.swing_high
             /\ zz.candidate_idx = zz.swing_high_idx
        ELSE /\ zz.candidate_price = zz.swing_low
             /\ zz.candidate_idx = zz.swing_low_idx

CandidateIsNone == zz.candidate_price = NoneVal /\ zz.candidate_idx = NoneVal

CandidateIsSet == zz.candidate_price # NoneVal /\ zz.candidate_idx # NoneVal

\* C8 as stated: the candidate is none right after a call that confirms a
\* pivot, and non-none after every later call with a valid bar.
C8_CandidateNoneAfterConfirmation ==
    /\ ConfirmedThisCall => CandidateIsNone
    /\ (NumConfirmed >= 1 /\ ~ConfirmedThisCall /\ ~InvalidRow(LastRow)) => CandidateIsSet

\* C8 amended: once a pivot has been confirmed the candidate is never none:
\* it is already set again when the confirming call returns, and it is set
\* after every later call.
C8_CandidateSetAfterConfirmation ==
    NumConfirmed >= 1 => CandidateIsSet

\* A confirming call that is itself a later call after an earlier confirmation.
C8_Witness == ConfirmedThisCall /\ NumConfirmed >= 2 /\ CandidateIsSet

\* The bars of the first worked scenario.
Scenario9 == << <<100, 99>>, <<110, 109>>, <<96, 95>> >>

\* The engine with pct = 0.05 after the first n bars of the scenario.
Scenario9Fed(n) ==
    /\ zz.pct = <<5, 100>>
    /\ Len(Rows) = n
    /\ \A k \in 1..n : Rows[k].High = Scenario9[k][1] /\ Rows[k].Low = Scenario9[k][2]

\* C9 as stated: the Low pivot 99 at index 0 is confirmed by the call for bar
\* 2 and not earlier, it is the only confirmed pivot after the three bars, and
\* the candidate is then the high 110 at index 1.
C9_LowConfirmedAtBar2 ==
    /\ (Scenario9Fed(1) \/ Scenario9Fed(2)) => confirmations = << >>
    /\ Scenario9Fed(3) =>
          /\ confirmations = << [price |-> 99, idx |-> 0, type |-> "Low", at |-> 2] >>
          /\ zz.candidate_price = 110
          /\ zz.candidate_idx = 1

\* C9 amended: the Low pivot 99 at index 0 is confirmed by the call for bar 1;
\* the call for bar 2 confirms the High pivot 110 at index 1, so two pivots
\* are confirmed after the three bars, and the candidate is then at index 2
\* with the swing_high just reset (-inf) as its price.
C9_LowConfirmedAtBar1 ==
    /\ Scenario9Fed(1) => confirmations = << >>
    /\ Scenario9Fed(2) =>
          confirmations = << [price |-> 99, idx |-> 0, type |-> "Low", at |-> 1] >>
    /\ Scenario9Fed(3) =>
          /\ confirmations = << [price |-> 99, idx |-> 0, type |-> "Low", at |-> 1],
                                [price |-> 110, idx |-> 1, type |-> "High", at |-> 2] >>
          /\ zz.candidate_price = NegInf
          /\ zz.candidate_idx = 2

C9_Witness == Scenario9Fed(3)

\* A fresh engine with pct = 0.10 fed two valid bars with the same high and
\* the same low.
FlatPairFed ==
    /\ zz.pct = <<10, 100>>
    /\ Len(Rows) = 2
    /\ ~InvalidRow(Rows[1])
    /\ Rows[2].High = Rows[1].High
    /\ Rows[2].Low = Rows[1].Low

FreshEngine == zz # NoEngine /\ Len(zz.historic_dic) = 0

\* C11: constructing with pct <= 0 raises and yields no engine; constructing
\* with pct > 0 yields swing_high = -inf, swing_low = +inf, no last confirmed
\* pivot, no candidate and an empty history.
C11_ConstructorContract ==
    call.op = "__init__" =>
        IF call.pct[1] <= 0
        THEN raised = "ValueError" /\ zz = NoEngine
        ELSE /\ raised = "None"
             /\ zz # NoEngine
             /\ zz.pct = call.pct
             /\ zz.swing_high = NegInf
             /\ zz.swing_low = PosInf
             /\ zz.last_confirmed_type = "None"
             /\ zz.last_confirmed_price = NoneVal
             /\ zz.last_confirmed_idx = NoneVal
             /\ CandidateIsNone
             /\ zz.historic_dic = << >>

\* A rejected zero threshold.
C11_Witness == call.op = "__init__" /\ call.pct[1] = 0 /\ raised = "ValueError"

BothAtSentinel == zz.swing_high = NegInf /\ zz.swing_low = PosInf

HasValidRow == \E k \in DOMAIN Rows : ~InvalidRow(Rows[k])

\* C12 as stated: in every reachable state, the initial one included, at most
\* one of swing_high and swing_low is at its sentinel.
C12_AtMostOneSentinel == ~BothAtSentinel

\* C12 amended: until the first valid bar has been processed (the initial
\* state included) both swings are at their sentinels; in every state after
\* the first valid bar at most one of them is.
C12_AtMostOneSentinelAfterFirstBar ==
    IF HasValidRow THEN ~BothAtSentinel ELSE BothAtSentinel

\* After the swing_high of a confirmed High was reset.
C12_Witness == HasValidRow /\ zz.swing_high = NegInf /\ zz.swing_low # PosInf

\* C13: the index of each confirmed pivot is at most the index of the bar
\* whose update() confirmed it.
C13_PivotNotAfterConfirmingBar ==
    \A c \in DOMAIN confirmations : confirmations[c].idx <= confirmations[c].at

\* A pivot confirmed two bars or more after its own bar.
C13_Witness ==
    \E c \in DOMAIN confirmations : confirmations[c].idx + 2 <= confirmations[c].at

\* C14: every call of update(), valid bar or not, appends exactly one row
\* (index, high, low, no pivot) at the end and leaves index, high and low of
\* the rows before it as they were, so the length counts the calls; a
\* confirmation annotates a row and adds none.
C14_HistoryAppendOnly ==
    [][ LET n == Len(zz.historic_dic)
            new == zz'.historic_dic
        IN /\ Len(new) = n + 1
           /\ new[n + 1] = [index |-> n, High |-> call'.high, Low |-> call'.low,
                            ZigZag |-> NaN, type |-> "NaN"]
           /\ \A k \in 1..n :
                 /\ new[k].index = zz.historic_dic[k].index
                 /\ new[k].High = zz.historic_dic[k].High
                 /\ new[k].Low = zz.historic_dic[k].Low
           /\ Len(confirmations') > Len(confirmations) =>
                 \E k \in 1..n : new[k].type # "NaN" /\ zz.historic_dic[k].type = "NaN"
      ]_vars

\* A confirming call in a history that also holds a skipped bar.
C14_Witness ==
    /\ ConfirmedThisCall
    /\ Len(Rows) >= 3
    /\ \E k \in DOMAIN Rows : InvalidRow(Rows[k])

\* e is the engine after the first m calls of the feed that led to this
\* state: the pivots it has annotated are annotated alike in this state, the
\* pivots this state recorded during those m calls are in e, and so on for
\* the engine after m + 1 calls.
RECURSIVE PrefixesAgree(_, _)
PrefixesAgree(e, m) ==
    /\ \A k \in 1..m :
          /\ e.historic_dic[k].type # "NaN" =>
                /\ Rows[k].type = e.historic_dic[k].type
                /\ Rows[k].ZigZag = e.historic_dic[k].ZigZag
          /\ (\E c \in DOMAIN confirmations :
                 /\ confirmations[c].at < m
                 /\ confirmations[c].idx = Rows[k].index)
             => e.historic_dic[k] = Rows[k]
    /\ m < Len(Rows) =>
          PrefixesAgree(update(e, HighColumn[m + 1], LowColumn[m + 1], m), m + 1)

\* C15: once a row carries a pivot annotation no later call changes or clears
\* it, and the pivots confirmed during the first m calls are the same whether
\* or not further bars are fed.
C15_PastNeverRevised ==
    /\ [] PrefixesAgree(ZigZagClass(zz.pct, FALSE), 0)
    /\ [][ /\ \A k \in DOMAIN zz.historic_dic :
                zz.historic_dic[k].type # "NaN" =>
                   /\ zz'.historic_dic[k].type = zz.historic_dic[k].type
                   /\ zz'.historic_dic[k].ZigZag = zz.historic_dic[k].ZigZag
           /\ Len(confirmations') >= Len(confirmations)
           /\ \A c \in DOMAIN confirmations : confirmations'[c] = confirmations[c]
         ]_vars

\* A pivot confirmed at least two calls ago, followed by another confirmation.
C15_Witness ==
    /\ NumConfirmed >= 2
    /\ confirmations[1].at + 2 <= LastRow.index

\* C17 as stated: on an engine built with debug = False, debug_df() succeeds
\* and returns an empty trace, whatever was fed.
C17_DebugTraceEmptyWithoutDebug ==
    (zz # NoEngine /\ ~zz.debug) =>
        debug_df(zz) = [raised |-> "None", rows |-> << >>]

\* The bar of the call that led to the next state, and its validity.
ValidBar(high, low) == high # NaN /\ low # NaN /\ high >= low

\* C18: same-bar tie-break.  With a High confirmed last, a valid bar whose low
\* is below swing_low sets swing_low to it and resets swing_high to -inf at
\* this index, whatever the bar's high; only otherwise a high above
\* swing_high becomes swing_high.  With a Low confirmed last, the same with
\* the sides exchanged.
C18_SameBarTieBreak ==
    [][ LET h == call'.high
            l == call'.low
            idx == Len(zz.historic_dic)
        IN ValidBar(h, l) =>
             /\ zz.last_confirmed_type = "High" =>
                  IF l < zz.swing_low
                  THEN /\ zz'.swing_low = l /\ zz'.swing_low_idx = idx
                       /\ zz'.swing_high = NegInf /\ zz'.swing_high_idx = idx
                  ELSE IF h > zz.swing_high
                  THEN zz'.swing_high = h /\ zz'.swing_high_idx = idx
                  ELSE /\ zz'.swing_high = zz.swing_high
                       /\ zz'.swing_high_idx = zz.swing_high_idx
             /\ zz.last_confirmed_type = "Low" =>
                  IF h > zz.swing_high
                  THEN /\ zz'.swing_high = h /\ zz'.swing_high_idx = idx
                       /\ zz'.swing_low = PosInf /\ zz'.swing_low_idx = idx
                  ELSE IF l < zz.swing_low
                  THEN zz'.swing_low = l /\ zz'.swing_low_idx = idx
                  ELSE /\ zz'.swing_low = zz.swing_low
                       /\ zz'.swing_low_idx = zz.swing_low_idx
      ]_vars

\* After a Low, a bar with a new high whose low is below the low of the bar
\* before it: the high is taken, the low is not.
C18_Witness ==
    /\ Len(Rows) >= 3
    /\ zz.last_confirmed_type = "Low"
    /\ ~ConfirmedThisCall
    /\ ~InvalidRow(LastRow)
    /\ ~InvalidRow(Rows[Len(Rows) - 1])
    /\ zz.last_confirmed_idx < Rows[Len(Rows) - 1].index
    /\ confirmations[Len(confirmations)].at < Rows[Len(Rows) - 1].index
    /\ LastRow.Low < Rows[Len(Rows) - 1].Low
    /\ zz.swing_high = LastRow.High /\ zz.swing_high_idx = LastRow.index
    /\ zz.swing_low = PosInf /\ zz.swing_low_idx = LastRow.index

\* C19: post-bootstrap confirmation rule.  With sh, sl the swings after the
\* swing update of a valid bar: after a High, (sl, sl_idx) is confirmed as a
\* Low exactly when (sh - sl) / sl >= pct, and swing_low is then reset to
\* +inf; after a Low, (sh, sh_idx) is confirmed as a High exactly when
\* (sh - sl) / sh >= pct, and swing_high is then reset to -inf; otherwise
\* nothing is confirmed and the last confirmed pivot stays.
C19_PostBootstrapConfirmation ==
    [][ LET h == call'.high
            l == call'.low
            idx == Len(zz.historic_dic)
            s2 == _update_swings(_update_df(zz, h, l, idx), zz.last_confirmed_type, h, l, idx)
            sh == s2.swing_high
            sl == s2.swing_low
            finite == sh # NegInf /\ sl # PosInf
            unconfirmed ==
                /\ zz'.last_confirmed_type = zz.last_confirmed_type
                /\ zz'.last_confirmed_price = zz.last_confirmed_price
                /\ zz'.last_confirmed_idx = zz.last_confirmed_idx
                /\ confirmations' = confirmations
                /\ ~zz'.confirmed
                /\ zz'.swing_high = sh /\ zz'.swing_low = sl
                /\ \A k \in DOMAIN zz.historic_dic :
                      zz'.historic_dic[k] = zz.historic_dic[k]
        IN (ValidBar(h, l) /\ zz.last_confirmed_type # "None") =>
             IF zz.last_confirmed_type = "High"
             THEN IF finite /\ AtLeastPct(sh - sl, sl)
                  THEN /\ zz'.last_confirmed_type = "Low"
                       /\ zz'.last_confirmed_price = sl
                       /\ zz'.last_confirmed_idx = s2.swing_low_idx
                       /\ zz'.historic_dic[s2.swing_low_idx + 1].type = "Low"
                       /\ zz'.historic_dic[s2.swing_low_idx + 1].ZigZag = sl
                       /\ zz'.swing_low = PosInf /\ zz'.swing_low_idx = idx
                       /\ zz'.swing_high = sh
                       /\ Len(confirmations') = Len(confirmations) + 1
                  ELSE unconfirmed
             ELSE IF finite /\ AtLeastPct(sh - sl, sh)
                  THEN /\ zz'.last_confirmed_type = "High"
                       /\ zz'.last_confirmed_price = sh
                       /\ zz'.last_confirmed_idx = s2.swing_high_idx
                       /\ zz'.historic_dic[s2.swing_high_idx + 1].type = "High"
                       /\ zz'.historic_dic[s2.swing_high_idx + 1].ZigZag = sh
                       /\ zz'.swing_high = NegInf /\ zz'.swing_high_idx = idx
                       /\ zz'.swing_low = sl
                       /\ Len(confirmations') = Len(confirmations) + 1
                  ELSE unconfirmed
      ]_vars

\* A Low confirmed after a High, itself confirmed after the bootstrap.
C19_Witness ==
    /\ NumConfirmed >= 3
    /\ ConfirmedThisCall
    /\ zz.last_confirmed_type = "Low"

\* C20 as stated: after a valid bar in the bootstrap phase that confirms
\* nothing, a candidate that is set is the current (value, index) of
\* swing_high or of swing_low, and when the two swing indices differ it is
\* the one with the earlier index.
C20_BootstrapCandidateIsEarlierSwing ==
    (/\ zz.last_confirmed_type = "None"
     /\ Len(Rows) > 0
     /\ ~InvalidRow(LastRow)) =>
        /\ zz.swing_high_idx < zz.swing_low_idx =>
              zz.candidate_price = zz.swing_high /\ zz.candidate_idx = zz.swing_high_idx
        /\ zz.swing_low_idx < zz.swing_high_idx =>
              zz.candidate_price = zz.swing_low /\ zz.candidate_idx = zz.swing_low_idx
        /\ CandidateIsSet =>
              \/ zz.candidate_price = zz.swing_high /\ zz.candidate_idx = zz.swing_high_idx
              \/ zz.candidate_price = zz.swing_low /\ zz.candidate_idx = zz.swing_low_idx

\* C21: every annotation sits on the row whose index is the index of a
\* confirmed pivot and its price is that row's own low (type Low) or own high
\* (type High); every confirmed pivot is annotated on its row; rows whose
\* index is not a confirmed pivot's index carry no annotation.
C21_AnnotationOnOwnRow ==
    /\ \A k \in DOMAIN Rows :
          IF Rows[k].type = "NaN"
          THEN Rows[k].ZigZag = NaN /\ ~IsPivotIndex(Rows[k].index)
          ELSE /\ Rows[k].type \in {"High", "Low"}
               /\ Rows[k].ZigZag =
                     (IF Rows[k].type = "Low" THEN Rows[k].Low ELSE Rows[k].High)
               /\ \E c \in DOMAIN confirmations :
                     /\ confirmations[c].idx = Rows[k].index
                     /\ confirmations[c].type = Rows[k].type
                     /\ confirmations[c].price = Rows[k].ZigZag
    /\ \A c \in DOMAIN confirmations :
          \E k \in DOMAIN Rows :
             /\ Rows[k].index = confirmations[c].idx
             /\ Rows[k].type = confirmations[c].type

\* A Low and a High annotated, on bars whose high and low differ.
C21_Witness ==
    /\ \E k \in DOMAIN Rows : Rows[k].type = "Low" /\ Rows[k].High > Rows[k].Low
    /\ \E k \in DOMAIN Rows : Rows[k].type = "High" /\ Rows[k].High > Rows[k].Low

\* The labels of the valid bars fed so far, in feed order.
RECURSIVE ValidLabels(_)
ValidLabels(n) ==
    IF n = 0 THEN << >>
    ELSE IF InvalidRow(Rows[n]) THEN ValidLabels(n - 1)
    ELSE Append(ValidLabels(n - 1), Rows[n].index)

\* C22: with debug = True every update() with a valid bar appends exactly one
\* snapshot to the debug trace and an invalid bar appends none; the history is
\* the one an engine without debug builds from the same bars; a snapshot's
\* confirmed flag is true exactly when its update() annotated a pivot.
C22_DebugSnapshots ==
    /\ [] ( (zz # NoEngine /\ zz.debug) =>
               /\ [k \in DOMAIN zz.debug_dic |-> zz.debug_dic[k].index]
                     = ValidLabels(Len(Rows))
               /\ zz.historic_dic =
                     FeedAll(ZigZagClass(zz.pct, FALSE), HighColumn, LowColumn,
                             Len(Rows)).historic_dic )
    /\ [][ (zz # NoEngine /\ zz.debug /\ call'.op = "update") =>
              LET h == call'.high
                  l == call'.low
                  n == Len(zz.historic_dic)
                  old == zz.debug_dic
                  new == zz'.debug_dic
              IN IF ValidBar(h, l)
                 THEN /\ Len(new) = Len(old) + 1
                      /\ \A k \in DOMAIN old : new[k] = old[k]
                      /\ new[Len(new)].index = n
                      /\ new[Len(new)].High = h
                      /\ new[Len(new)].Low = l
                      /\ new[Len(new)].confirmed =
                            (\E k \in 1..n : /\ zz.historic_dic[k].type = "NaN"
                                             /\ zz'.historic_dic[k].type # "NaN")
                 ELSE new = old
         ]_vars

\* A debug trace that skipped an invalid bar and holds a confirming and, after
\* it, a non-confirming snapshot.
C22_Witness ==
    /\ zz # NoEngine
    /\ zz.debug
    /\ Len(zz.debug_dic) < Len(Rows)
    /\ \E j, k \in DOMAIN zz.debug_dic :
          j < k /\ zz.debug_dic[j].confirmed /\ ~zz.debug_dic[k].confirmed

\* C23 as stated: a candidate that is not none has a finite price, equal to
\* the high or the low of the row at the candidate's index, and the series of
\* pivots() holds no infinite value.
C23_CandidateFinite ==
    /\ CandidateIsSet =>
          /\ zz.candidate_price \notin {PosInf, NegInf}
          /\ \E k \in DOMAIN Rows :
                /\ Rows[k].index = zz.candidate_idx
                /\ zz.candidate_price \in {Rows[k].High, Rows[k].Low}
    /\ \A i \in DOMAIN pivots(zz) : pivots(zz)[i] \notin {PosInf, NegInf}

\* The positions of the rows that carry an annotation.
Annotated(rows) == {k \in DOMAIN rows : rows[k].type # "NaN"}

\* C24: the indices of the confirmed pivots strictly increase in confirmation
\* order, an update() confirms at most one pivot, no row is annotated twice,
\* and the index of a pivot is strictly below the index of the bar whose
\* update() confirmed it.
C24_PivotIndicesIncrease ==
    /\ [] ( /\ \A c \in DOMAIN confirmations :
                  /\ confirmations[c].idx < confirmations[c].at
                  /\ c > 1 =>
                        /\ confirmations[c - 1].idx < confirmations[c].idx
                        /\ confirmations[c - 1].at < confirmations[c].at
            /\ Cardinality(Annotated(Rows)) = NumConfirmed
            /\ (zz.last_confirmed_type # "None") =>
                  /\ NumConfirmed >= 1
                  /\ zz.last_confirmed_idx = confirmations[NumConfirmed].idx )
    /\ [][ /\ Annotated(zz.historic_dic) \subseteq Annotated(zz'.historic_dic)
           /\ Cardinality(Annotated(zz'.historic_dic))
                 <= Cardinality(Annotated(zz.historic_dic)) + 1
         ]_vars

\* Three pivots, confirmed by three different calls.
C24_Witness == NumConfirmed >= 3 /\ Len(Rows) = NumConfirmed + 1

\* C25: once a pivot has been confirmed, a candidate that is not none has an
\* index strictly above the last confirmed pivot's index, and the entry of
\* every confirmed pivot in the series of pivots() is the pivot's price.
C25_CandidateAfterLastPivot ==
    (zz.last_confirmed_type # "None" /\ CandidateIsSet) =>
        /\ zz.candidate_idx > zz.last_confirmed_idx
        /\ \A c \in DOMAIN confirmations :
              /\ confirmations[c].idx # zz.candidate_idx
              /\ pivots(zz)[confirmations[c].idx] = confirmations[c].price

\* Two pivots confirmed and a finite candidate on a row before the last one.
C25_Witness ==
    /\ NumConfirmed >= 2
    /\ ~ConfirmedThisCall
    /\ CandidateIsSet
    /\ zz.candidate_price \notin {PosInf, NegInf}
    /\ zz.candidate_idx < LastRow.index

\* C26 as stated: validate_inputs raises TypeError whenever some argument, the
\* first included, is not a Series; ValueError whenever all are Series and
\* one has an index other than the first's; nothing otherwise.
C26_ValidateInputsErrors ==
    (call.op = "validate_inputs" /\ Len(call.series) >= 1) =>
        IF \E i \in DOMAIN call.series : call.series[i].kind # "Series"
        THEN raised = "TypeError"
        ELSE IF \E i \in DOMAIN call.series :
                   call.series[i].index # call.series[1].index
        THEN raised = "ValueError"
        ELSE raised = "None"

\* C27 as stated: SRTR raises ValueError for the length only when the length
\* is strictly below N, raises ValueError when N <= n or the method is
\* neither 'iid' nor 'cluster', and otherwise hands over to the i.i.d. routine
\* when n = 1 or method = 'iid' and to the HAC routine when method = 'cluster'.
C27_SRTRAcceptsLengthN ==
    call.op = "SRTR" =>
        /\ ret.message = "Length of series must be >= N." => call.length < call.N
        /\ IF \/ call.length < call.N
              \/ call.N <= call.n
              \/ call.method \notin {"iid", "cluster"}
           THEN raised = "ValueError"
           ELSE /\ raised = "None"
                /\ ret.routine = IF call.n = 1 \/ call.method = "iid"
                                 THEN "_SRTR_iid" ELSE "_SRTR_cluster"

====
